---- MODULE Spec2Model ----
(***************************************************************************)
(* Cell clustering in the unit cube (src/cell_clustering.cpp): two         *)
(* substance fields on an L x L x L grid (produce, diffuse, decay), a      *)
(* population of cells that grows by division (phase 1) and then moves     *)
(* along the substance gradients (phase 2).                                *)
(*                                                                         *)
(* Floats are modelled in fixed point.  Positions and path lengths are     *)
(* counted in units of 0.05 (PosOne = 1.0), concentrations in units of     *)
(* 1/60 (ConcOne = 1.0); a float operation that rounds is modelled by a    *)
(* rounding integer division.                                              *)
(***************************************************************************)
EXTENDS Integers, Sequences, FiniteSets, TLC

\* ---------------------------------------------------------------- bounds
MaxFinal   == 3     \* finalNumberCells ranges over 1..MaxFinal
MaxDiv     == 2     \* divThreshold ranges over 0..MaxDiv
MaxPathThr == 2     \* pathThreshold ranges over 1..MaxPathThr (units of 0.05)
MaxT       == 1     \* T ranges over 0..MaxT
GridL      == 2     \* L, the grid resolution
NThreads   == 2     \* worker threads of a parallel loop
MaxParCells == 2    \* cells handed to a parallel loop run on its own

\* ------------------------------------------------------- program constants
PosOne     == 20    \* the coordinate 1.0 (upper face of the cube)
PosHalf    == 10    \* the coordinate 0.5 the arrays are initialised with
StepLen    == 2     \* 0.1: length of the random move, and the path increment
OffsetLen  == 1     \* 0.05: distance of a daughter from its parent
ConcOne    == 60    \* the concentration 1.0
ConcInc    == 6     \* 0.1: the amount one cell deposits
DiffDen    == 6     \* D = D/6
MuDen      == 2     \* mu is counted in halves: mu = k/MuDen
EnergyOne  == 100   \* the energy 1.0
EnergyCap  == 100   \* fmin(100.0, ...): the most one pair contributes
MinNeighbors  == 100    \* avgNeighbors < 100
DriverTargetN == 10000  \* the targetN main passes to both metrics

\* A float absorbs an increment that is small against its magnitude
\* (x + 0.1 == x once x >= 2^21): coordinates and path lengths stop changing
\* at these magnitudes.
PosAbsorb  == PosOne + 2 * StepLen
PathAbsorb == MaxPathThr + StepLen

\* ---------------------------------------------------------------- helpers
Min(a, b) == IF a < b THEN a ELSE b
Max(a, b) == IF a > b THEN a ELSE b
Abs(a)    == IF a < 0 THEN -a ELSE a

\* a/b rounded to the nearest integer (b > 0), as a float operation rounds
RoundDiv(a, b) == IF a >= 0 THEN (2 * a + b) \div (2 * b)
                            ELSE -((2 * (-a) + b) \div (2 * b))

RECURSIVE Pow2(_)
Pow2(k) == IF k <= 0 THEN 1 ELSE 2 * Pow2(k - 1)

\* the unit vectors currentCellMovement/currentNorm ranges over
UnitDirs == { <<-1, 0, 0>>, <<1, 0, 0>> }

\* values an uninitialised float may hold
UninitVals == { -OffsetLen, PosHalf }

\* indices of the per-cell arrays: 0 .. finalNumberCells-1 are allocated, the
\* slots above stand for the memory that follows the allocation
IdxMax == Max(2 * MaxFinal, 8)
Idx    == 0 .. IdxMax

Axis   == 1 .. 3
Grid   == 0 .. (GridL - 1)
Voxels == Grid \X Grid \X Grid
Subs   == 0 .. 1

VARIABLES
    \* configuration (params)
    finalNumberCells, divThreshold, pathThreshold, T, D, mu,
    speed,
    spatialRange,       \* params.spatialRange, in position units
    targetN,            \* the targetN handed to getEnergy and getCriterion
    rngDirs,            \* the unit vectors the random generator yields in this run
    \* main
    phase, pc, n, i,
    posAll, pathTraveled, numberDivisions, typesAll, currMov,
    Conc,
    energy,             \* the last value of getEnergy: numerator and denominator
    currCriterion,      \* the last value of getCriterion
    \* history
    pre,                \* the population when the last growth pass began
    born,               \* indices written for daughters by the last growth pass, in order
    parents,            \* the cells that divided in the last growth pass, in order
    moved,              \* indices moved by the last growth pass
    fault,              \* the out-of-bounds accesses made so far
    \* a parallel loop (omp parallel for) in progress
    todo,               \* iterations no thread has taken yet
    tpc,                \* where each thread is in the loop body
    tloc,               \* each thread's private variables
    sh,                 \* the variables declared outside the loop, shared by the threads
    conc0               \* history: the field when the loop began

cfgVars  == << finalNumberCells, divThreshold, pathThreshold, T, D, mu, speed, rngDirs,
              spatialRange, targetN >>
metricVars == << energy, currCriterion >>
popVars  == << n, posAll, pathTraveled, numberDivisions, typesAll >>
histVars == << pre, born, parents, moved >>
parVars  == << todo, tpc, tloc, sh, conc0 >>
vars == << finalNumberCells, divThreshold, pathThreshold, T, D, mu, speed, rngDirs,
           phase, pc, n, i, posAll, pathTraveled, numberDivisions, typesAll,
           currMov, Conc, pre, born, parents, moved, fault,
           todo, tpc, tloc, sh, conc0, spatialRange, targetN, energy, currCriterion >>

\* ------------------------------------------------------------ field kernels
VoxelIndex(x) == Min((x * GridL) \div PosOne, GridL - 1)
    \* min((int)floor(pos/sideLength), L-1), sideLength = 1/L

CellVoxel(p) == << VoxelIndex(p[1]), VoxelIndex(p[2]), VoxelIndex(p[3]) >>

InGrid(v) == v[1] \in Grid /\ v[2] \in Grid /\ v[3] \in Grid

\* Conc[(!(typesAll[c]==1))]
SubstanceOf(t) == IF t = 1 THEN 0 ELSE 1

\* *C = *C + 0.1; if(*C > 1) *C = 1;
Deposit(v) == IF v + ConcInc > ConcOne THEN ConcOne ELSE v + ConcInc

\* the cell indices of a loop that are outside the allocation of the per-cell arrays
CellsOutside(cnt) == { c \in 0 .. (cnt - 1) : c >= finalNumberCells }

\* the cells of 0..cnt-1 whose voxel is outside the grid
VoxelsOutside(pos, cnt) == { c \in 0 .. (cnt - 1) : ~InGrid(CellVoxel(pos[c])) }

\* The loop of produceSubstances run by one thread, cells c .. cnt-1.  A deposit
\* at a voxel outside the grid is not a write to the field.
RECURSIVE ProduceLoop(_, _, _, _, _)
ProduceLoop(conc, pos, types, c, cnt) ==
    IF c >= cnt THEN conc
    ELSE LET v == CellVoxel(pos[c])
             k == << SubstanceOf(types[c]), v >>
         IN  ProduceLoop(IF InGrid(v) THEN [conc EXCEPT ![k] = Deposit(@)] ELSE conc,
                         pos, types, c + 1, cnt)

\* the neighbours of voxel v that runDiffusionStep reads: xUp, xDown, yUp, ...
Neighbours(v) ==
    { w \in Voxels : Abs(w[1] - v[1]) + Abs(w[2] - v[2]) + Abs(w[3] - v[3]) = 1 }

\* an update that only lets a voxel gain from a fuller neighbour
DiffTermInflow(nb, self, d) == IF nb > self THEN RoundDiv((nb - self) * d, DiffDen) ELSE 0

\* (tempConc[..] - *tC) * D, with D = D/6
DiffTerm(nb, self, d) == RoundDiv((nb - self) * d, DiffDen)

RECURSIVE SumTerms(_, _, _, _, _)
SumTerms(temp, s, v, nbs, d) ==
    IF nbs = {} THEN 0
    ELSE LET w == CHOOSE x \in nbs : TRUE
         IN  DiffTerm(temp[<<s, w>>], temp[<<s, v>>], d)
               + SumTerms(temp, s, v, nbs \ {w}, d)

\* runDiffusionStep run by one thread: every voxel is updated from the copy tempConc
DiffuseField(conc, d) ==
    [ k \in Subs \X Voxels |-> conc[k] + SumTerms(conc, k[1], k[2], Neighbours(k[2]), d) ]

\* Conc0_xy[i3] = Conc0_xy[i3] * mu, with mu = 1 - mu
DecayValue(v, m) == RoundDiv(v * (MuDen - m), MuDen)

\* runDecayStep run by one thread
DecayField(conc, m) == [ k \in Subs \X Voxels |-> DecayValue(conc[k], m) ]

\* ------------------------------------------------------- population kernels
\* x + dx in float: the sum is absorbed once |x| has reached PosAbsorb
AddPos(x, dx) == IF Abs(x) >= PosAbsorb THEN x ELSE x + dx

MovePos(p, len, u) ==
    << AddPos(p[1], len * u[1]), AddPos(p[2], len * u[2]), AddPos(p[3], len * u[3]) >>

\* pathTraveled[c] += 0.1
AddPath(p) == Min(p + StepLen, PathAbsorb)

\* a pass bounded by the running count, which also visits the cells it creates
PassBoundGrowing(n0, cur) == cur

\* for (c=0; c<n; c++): the bound of the pass is the count the call was given
PassBound(n0, cur) == n0

\* a division test that lets a cell divide once more than divThreshold times
MayDivideOnceMore(nd, dthr) == nd <= dthr

\* numberDivisions[c] < divThreshold
MayDivide(nd, dthr) == nd < dthr

\* pathTraveled[c] > pathThreshold
PathCrossed(path, pthr) == path > pthr

\* a division that resets the parent's path to zero
PathAfterDivisionZero(path, pthr) == 0

\* pathTraveled[c] -= pathThreshold
PathAfterDivision(path, pthr) == path - pthr

\* a daughter that starts with no division of its own
DaughterDivisionsZero(ndParent) == 0

\* numberDivisions[currentNumberCells-1] = numberDivisions[c] (after its increment)
DaughterDivisions(ndParent) == ndParent

\* a daughter that takes its parent's type
DaughterTypeSame(t) == t

\* typesAll[currentNumberCells-1] = -typesAll[c]
DaughterType(t) == -t

\* The state of one call of cellMovementAndDuplication: the arrays, the running
\* count (currentNumberCells) and, as history, the indices written and moved.
\* md[c] and od[c] are the unit vectors drawn for cell c's move and for its
\* daughter's offset.
DrawnFor(f, c) == IF c \in DOMAIN f THEN f[c] ELSE CHOOSE u \in UnitDirs : TRUE

RECURSIVE GrowLoop(_, _, _, _, _)
GrowLoop(st, c, n0, md, od) ==
    IF c >= PassBound(n0, st.cnt) \/ c > IdxMax THEN st
    ELSE
      LET pos1  == MovePos(st.pos[c], StepLen, DrawnFor(md, c))
          path1 == AddPath(st.path[c])
          div   == MayDivide(st.nd[c], divThreshold) /\ PathCrossed(path1, pathThreshold)
          new   == st.cnt                       \* currentNumberCells-1 after the increment
          nd1   == st.nd[c] + 1
          st1   == IF div
                   THEN [ pos  |-> [st.pos EXCEPT ![c] = pos1,
                                                  ![new] = MovePos(pos1, OffsetLen, DrawnFor(od, c))],
                          path |-> [st.path EXCEPT ![c] = PathAfterDivision(path1, pathThreshold)],
                          nd   |-> [st.nd EXCEPT ![c] = nd1, ![new] = DaughterDivisions(nd1)],
                          ty   |-> [st.ty EXCEPT ![new] = DaughterType(st.ty[c])],
                          cnt  |-> st.cnt + 1,
                          born |-> Append(st.born, new),
                          parents |-> Append(st.parents, c),
                          moved |-> st.moved \cup {c} ]
                   ELSE [ st EXCEPT !.pos[c] = pos1, !.path[c] = path1,
                                    !.moved = @ \cup {c} ]
      IN  GrowLoop(st1, c + 1, n0, md, od)

\* if(x<0) x=0; else if(x>1) x=1;
ClampCoord(x) == IF x < 0 THEN 0 ELSE IF x > PosOne THEN PosOne ELSE x

ClampPos(p) == << ClampCoord(p[1]), ClampCoord(p[2]), ClampCoord(p[3]) >>

\* for(c=n;c>0;--c): the indices the boundary pass of phase 1 visits
Phase1ClampRange(cnt) == { c \in Idx : c > 0 /\ c <= cnt }

\* c=n; while(c--): the indices the move-and-clamp pass of phase 2 visits
Phase2ClampRange(cnt) == { c \in Idx : c < cnt }

\* --------------------------------------------------------- gradient movement
\* a read of the field; a voxel outside the grid is memory outside the field,
\* which is taken to hold 0
ReadConc(conc, s, v) == IF InGrid(v) THEN conc[<<s, v>>] ELSE 0

UpIndex(k)   == Min(k + 1, GridL - 1)
DownIndex(k) == Max(k - 1, 0)

\* One component of a gradient, scaled by 2/L so that it is an integer:
\* (Conc[s][up] - Conc[s][down]) / (sideLength*(up-down)).  With up = down the
\* quotient is 0/0, not a number.
GradComp(conc, s, v, a) ==
    LET up   == [v EXCEPT ![a] = UpIndex(v[a])]
        down == [v EXCEPT ![a] = DownIndex(v[a])]
        span == up[a] - down[a]
    IN  IF span = 0 THEN [nan |-> TRUE, val |-> 0]
        ELSE [nan |-> FALSE,
              val |-> ((ReadConc(conc, s, up) - ReadConc(conc, s, down)) * 2) \div span]

Gradient(conc, s, v) == [a \in Axis |-> GradComp(conc, s, v, a)]

GradNaN(g) == \E a \in Axis : g[a].nan

NormSq(g) == g[1].val * g[1].val + g[2].val * g[2].val + g[3].val * g[3].val

\* normGrad > 0: false for a norm that is not a number
NormPositive(g) == ~GradNaN(g) /\ NormSq(g) > 0

RECURSIVE SqrtSearch(_, _, _)
SqrtSearch(lo, hi, x) ==
    IF lo >= hi THEN lo
    ELSE LET mid == (lo + hi + 1) \div 2
         IN  IF mid * mid <= x THEN SqrtSearch(mid, hi, x) ELSE SqrtSearch(lo, mid - 1, x)

\* floor(sqrt(x)) for x below 2^31
ISqrt(x) == SqrtSearch(0, Min(x, 46340), x)

\* the root is taken to two more digits where the squared norm leaves room for them
GradScale(g) == IF NormSq(g) <= 200000 THEN 100 ELSE 1

\* 100 * g[a] / getNorm(g)
UnitComp(g, a) ==
    RoundDiv(g[a].val * 100 * GradScale(g), ISqrt(NormSq(g) * GradScale(g) * GradScale(g)))

\* movVec[c] of runDiffusionClusterStep for a cell of type t at position p
MovementOf(conc, p, t, spd) ==
    LET v  == CellVoxel(p)
        g1 == Gradient(conc, 0, v)
        g2 == Gradient(conc, 1, v)
    IN  IF NormPositive(g1) /\ NormPositive(g2)
        THEN << RoundDiv(t * (UnitComp(g1, 1) - UnitComp(g2, 1)) * spd, 100),
                RoundDiv(t * (UnitComp(g1, 2) - UnitComp(g2, 2)) * spd, 100),
                RoundDiv(t * (UnitComp(g1, 3) - UnitComp(g2, 3)) * spd, 100) >>
        ELSE << 0, 0, 0 >>

\* runDiffusionClusterStep run by one thread
ClusterField(conc, pos, types, cnt, spd) ==
    [c \in Idx |-> IF c < cnt THEN MovementOf(conc, pos[c], types[c], spd) ELSE currMov[c]]

\* the cells of 0..cnt-1 whose gradient reads leave the grid
GradientOutside(pos, cnt) == VoxelsOutside(pos, cnt)

\* posAll[c] = posAll[c] + currMov[c], then the clamp
MoveAndClamp(p, m) == ClampPos(<< p[1] + m[1], p[2] + m[2], p[3] + m[3] >>)

\* ------------------------------------------------------------------ metrics
\* fabs(posAll[i1][k]-0.5) < subVolMax, subVolMax = pow(targetN/n, 1/3)/2: with
\* a = |x - 0.5| this is (a / 0.5)^3 < targetN/n (targetN > 0)
InSubVol(x, cnt, t) ==
    LET a == Abs(x - PosHalf)
    IN  a * a * a * cnt < PosHalf * PosHalf * PosHalf * t

\* the cells copied to posSubvol, typesSubvol; nrCellsSubVol is their number
SubVolCells(pos, cnt, t) ==
    { c \in 0 .. cnt - 1 : \A k \in Axis : InSubVol(pos[c][k], cnt, t) }

\* getL2Distance, squared
DistSq(p, q) ==
    (q[1] - p[1]) * (q[1] - p[1]) + (q[2] - p[2]) * (q[2] - p[2])
      + (q[3] - p[3]) * (q[3] - p[3])

\* currDist < spatialRange
IsClose(p, q, range) == range > 0 /\ DistSq(p, q) < range * range

\* the pairs i1 < i2 of subvolume cells the double loop finds close
ClosePairs(pos, sel, range) ==
    { pr \in sel \X sel : pr[1] < pr[2] /\ IsClose(pos[pr[1]], pos[pr[2]], range) }

\* fmin(100.0, spatialRange/currDist), in units of 1/EnergyOne; a distance of
\* zero gives the cap
PairEnergy(dsq, range) ==
    IF dsq = 0 THEN EnergyCap * EnergyOne
    ELSE Min(EnergyCap * EnergyOne,
             (range * EnergyOne * EnergyOne) \div ISqrt(dsq * EnergyOne * EnergyOne))

\* the sum of PairEnergy over a set of close pairs, taken distance by distance:
\* the squared distances k .. spatialRange^2 - 1, of which ds occur
RECURSIVE PairEnergySum(_, _, _, _, _)
PairEnergySum(pos, pairs, range, ds, k) ==
    IF k >= range * range THEN 0
    ELSE (IF k \in ds
          THEN PairEnergy(k, range)
                 * Cardinality({ pr \in pairs : DistSq(pos[pr[1]], pos[pr[2]]) = k })
          ELSE 0)
           + PairEnergySum(pos, pairs, range, ds, k + 1)

\* if (typesSubvol[i1]*typesSubvol[i2]>0): the pair adds to intraClusterEnergy,
\* else to extraClusterEnergy
IntraPairNegative(ta, tb) == ta * tb < 0
IntraPair(ta, tb) == ta * tb > 0

\* intraClusterEnergy, extraClusterEnergy and nrSmallDist when the pair loop
\* of getEnergy has ended
EnergyTerms(pos, types, cnt, range, t) ==
    LET sel   == SubVolCells(pos, cnt, t)
        close == ClosePairs(pos, sel, range)
        intra == { pr \in close : IntraPair(types[pr[1]], types[pr[2]]) }
        extra == close \ intra
        ds    == { DistSq(pos[pr[1]], pos[pr[2]]) : pr \in close }
    IN  [ intra |-> PairEnergySum(pos, intra, range, ds, 0),
          extra |-> PairEnergySum(pos, extra, range, ds, 0),
          nrSmallDist |-> Cardinality(close) ]

\* totalEnergy = (extraClusterEnergy-intraClusterEnergy)/(1.0+100.0*nrSmallDist),
\* kept as numerator (in units of 1/EnergyOne) and denominator
GetEnergy(pos, types, cnt, range, t) ==
    LET e == EnergyTerms(pos, types, cnt, range, t)
    IN  [ num |-> e.extra - e.intra, den |-> 1 + 100 * e.nrSmallDist ]

\* ((float)nrCellsSubVol)/(float)targetN < 0.25 and > 4, for targetN > 0
TooSparseNever(m, t) == FALSE
TooSparse(m, t) == 4 * m < t
TooDense(m, t)  == m > 4 * t

\* getCriterion. correctness_coefficient is a float compared with the double
\* 0.1: the float nearest to 1/10 is above the double nearest to 1/10, so a
\* quotient of exactly 1/10 also compares greater.
GetCriterion(pos, types, cnt, range, t) ==
    LET sel == SubVolCells(pos, cnt, t)
        nrCellsSubVol == Cardinality(sel)
    IN  IF TooSparse(nrCellsSubVol, t) THEN FALSE
        ELSE IF TooDense(nrCellsSubVol, t) THEN FALSE
        ELSE LET close == ClosePairs(pos, sel, range)
                 nrClose == Cardinality(close)
                 diffTypeClose ==
                     Cardinality({ pr \in close : types[pr[1]] * types[pr[2]] < 0 })
                 sameTypeClose == nrClose - diffTypeClose
             IN  IF 10 * diffTypeClose >= nrClose + 1 THEN FALSE
                 ELSE IF sameTypeClose < MinNeighbors * nrCellsSubVol THEN FALSE
                 ELSE TRUE

\* ------------------------------------------------------------------- main
\* the diffusion and decay constants the whole-run specifications draw from
\* (mu = 1: the field is cleared by every decay step)
DriverD  == { DiffDen }
DriverMu == { MuDen }

Threads == 1 .. NThreads

\* a thread's private variables: the loop variable(s) and a register
GradZero == [a \in Axis |-> [nan |-> FALSE, val |-> 0]]

LocZero == [c |-> 0, reg |-> 0, v |-> << 0, 0, 0 >>]

\* The variables the kernels declare before their parallel loops.  C stands for
\* the pointers C, C0, C1, tC0, tC1 (the voxel they point to), nbr for xUp,
\* xDown, yUp, yDown, zUp, zDown (the voxel they were computed from), g1, g2
\* for gradSub1, gradSub2, and n1, n2 for normGrad1, normGrad2 (the gradient
\* whose norm they hold).
ShZero ==
    [i1 |-> 0, i2 |-> 0, i3 |-> 0, C |-> << 0, << 0, 0, 0 >> >>,
     x0 |-> 0, x1 |-> 0, xy0 |-> << 0, 0 >>, xy1 |-> << 0, 0 >>,
     nbr |-> << 0, 0, 0 >>, g1 |-> GradZero, g2 |-> GradZero,
     n1 |-> GradZero, n2 |-> GradZero]

\* no parallel loop in progress
ParIdle ==
    /\ todo = {}
    /\ tpc = [t \in Threads |-> "idle"]
    /\ tloc = [t \in Threads |-> LocZero]
    /\ sh = ShZero
    /\ conc0 = [k \in Subs \X Voxels |-> 0]

Snapshot == [ n |-> n, path |-> pathTraveled, nd |-> numberDivisions, ty |-> typesAll ]

\* energy before its first assignment
EnergyZero == [ num |-> 0, den |-> 1 ]

\* params.spatialRange in the runs of main
DriverRange == 2 * StepLen

InitRun ==
    /\ T \in 0 .. MaxT
    /\ speed = StepLen
    /\ phase = 1 /\ pc = "loop" /\ n = 1 /\ i = 0
    /\ \E z \in UninitVals : posAll = [c \in Idx |-> << PosHalf, PosHalf, z >>]
    /\ pathTraveled = [c \in Idx |-> 0]
    /\ numberDivisions = [c \in Idx |-> 0]
    /\ typesAll = [c \in Idx |-> IF c = 0 THEN 1 ELSE 0]
    /\ currMov = [c \in Idx |-> << 0, 0, 0 >>]
    /\ Conc = [k \in Subs \X Voxels |-> 0]
    /\ spatialRange = DriverRange /\ targetN = DriverTargetN
    /\ energy = EnergyZero /\ currCriterion = FALSE
    /\ pre = Snapshot
    /\ born = << >> /\ parents = << >> /\ moved = {} /\ fault = {}
    /\ ParIdle

Init ==
    /\ finalNumberCells \in 1 .. MaxFinal
    /\ divThreshold \in 0 .. MaxDiv
    /\ pathThreshold \in 1 .. MaxPathThr
    /\ rngDirs = UnitDirs
    /\ D \in DriverD /\ mu \in DriverMu
    /\ InitRun

\* An access outside an allocation either faults (the process is killed) or
\* lands in the memory around the allocation.
Outcomes(oobs) == IF oobs = {} THEN {"ok"} ELSE {"ok", "abort"}

Abort(oobs) ==
    /\ pc' = "aborted"
    /\ fault' = fault \cup oobs
    /\ UNCHANGED << cfgVars, metricVars, parVars, popVars, histVars, phase, i, currMov, Conc >>

\* while (n<finalNumberCells)
Phase1Test ==
    /\ phase = 1 /\ pc = "loop"
    /\ pc' = IF n < finalNumberCells THEN "produce" ELSE "metrics"
    /\ UNCHANGED << cfgVars, metricVars, parVars, popVars, histVars, phase, i, currMov, Conc, fault >>

ProduceSubstances ==
    /\ pc = "produce"
    /\ LET oobs == (IF CellsOutside(n) # {} THEN {"cell"} ELSE {})
                     \cup (IF VoxelsOutside(posAll, n) # {} THEN {"voxel"} ELSE {})
       IN  \E out \in Outcomes(oobs) :
             IF out = "abort" THEN Abort(oobs)
             ELSE /\ Conc' = ProduceLoop(Conc, posAll, typesAll, 0, n)
                  /\ pc' = "diffuse"
                  /\ fault' = fault \cup oobs
                  /\ UNCHANGED << cfgVars, metricVars, parVars, popVars, histVars, phase, i, currMov >>

RunDiffusionStep ==
    /\ pc = "diffuse"
    /\ Conc' = DiffuseField(Conc, D)
    /\ pc' = "decay"
    /\ UNCHANGED << cfgVars, metricVars, parVars, popVars, histVars, phase, i, currMov, fault >>

RunDecayStep ==
    /\ pc = "decay"
    /\ Conc' = DecayField(Conc, mu)
    /\ pc' = IF phase = 1 THEN "grow" ELSE "cluster"
    /\ UNCHANGED << cfgVars, metricVars, parVars, popVars, histVars, phase, i, currMov, fault >>

\* n = cellMovementAndDuplication(...)
CellMovementAndDuplication ==
    /\ pc = "grow"
    /\ \E md \in [0 .. (n - 1) -> rngDirs], od \in [0 .. (n - 1) -> rngDirs] :
         LET st0  == [ pos |-> posAll, path |-> pathTraveled, nd |-> numberDivisions,
                       ty |-> typesAll, cnt |-> n, born |-> << >>, parents |-> << >>,
                       moved |-> {} ]
             r    == GrowLoop(st0, 0, n, md, od)
             oobs == IF \E k \in 1 .. Len(r.born) : r.born[k] >= finalNumberCells
                     THEN {"daughter"} ELSE {}
         IN  \E out \in Outcomes(oobs) :
               IF out = "abort" THEN Abort(oobs)
               ELSE /\ posAll' = r.pos
                    /\ pathTraveled' = r.path
                    /\ numberDivisions' = r.nd
                    /\ typesAll' = r.ty
                    /\ n' = r.cnt
                    /\ pre' = Snapshot
                    /\ born' = r.born
                    /\ parents' = r.parents
                    /\ moved' = r.moved
                    /\ pc' = "clamp"
                    /\ fault' = fault \cup oobs
                    /\ UNCHANGED << cfgVars, metricVars, parVars, phase, i, currMov, Conc >>

\* the boundary pass that ends an iteration of phase 1
Phase1Clamp ==
    /\ pc = "clamp"
    /\ LET range == Phase1ClampRange(n)
           oobs  == IF \E c \in range : c >= finalNumberCells THEN {"cell"} ELSE {}
       IN  \E out \in Outcomes(oobs) :
             IF out = "abort" THEN Abort(oobs)
             ELSE /\ posAll' = [c \in Idx |-> IF c \in range THEN ClampPos(posAll[c])
                                                           ELSE posAll[c]]
                  /\ pc' = "loop"
                  /\ fault' = fault \cup oobs
                  /\ UNCHANGED << cfgVars, metricVars, parVars, n, pathTraveled, numberDivisions, typesAll,
                                  histVars, phase, i, currMov, Conc >>

\* energy = getEnergy(...); currCriterion = getCriterion(...): both read the
\* cells 0..n-1 and change nothing
MetricsOobs == IF CellsOutside(n) # {} THEN {"cell"} ELSE {}

\* the metrics taken when phase 1 has ended; i = T
InitialMetrics ==
    /\ phase = 1 /\ pc = "metrics"
    /\ \E out \in Outcomes(MetricsOobs) :
         IF out = "abort" THEN Abort(MetricsOobs)
         ELSE /\ energy' = GetEnergy(posAll, typesAll, n, spatialRange, targetN)
              /\ currCriterion' = GetCriterion(posAll, typesAll, n, spatialRange, targetN)
              /\ phase' = 2 /\ pc' = "loop" /\ i' = T
              /\ fault' = fault \cup MetricsOobs
              /\ UNCHANGED << cfgVars, parVars, popVars, histVars, currMov, Conc >>

\* while(i--)
Phase2Test ==
    /\ phase = 2 /\ pc = "loop"
    /\ pc' = IF i # 0 THEN "produce" ELSE "metrics"
    /\ i' = i - 1
    /\ UNCHANGED << cfgVars, metricVars, parVars, popVars, histVars, phase, currMov, Conc, fault >>

RunDiffusionClusterStep ==
    /\ pc = "cluster"
    /\ LET oobs == (IF CellsOutside(n) # {} THEN {"cell"} ELSE {})
                     \cup (IF GradientOutside(posAll, n) # {} THEN {"voxel"} ELSE {})
       IN  \E out \in Outcomes(oobs) :
             IF out = "abort" THEN Abort(oobs)
             ELSE /\ currMov' = ClusterField(Conc, posAll, typesAll, n, speed)
                  /\ pc' = "move"
                  /\ fault' = fault \cup oobs
                  /\ UNCHANGED << cfgVars, metricVars, parVars, popVars, histVars, phase, i, Conc >>

\* the move and boundary pass that ends an iteration of phase 2
Phase2MoveClamp ==
    /\ pc = "move"
    /\ LET range == Phase2ClampRange(n)
           oobs  == IF \E c \in range : c >= finalNumberCells THEN {"cell"} ELSE {}
       IN  \E out \in Outcomes(oobs) :
             IF out = "abort" THEN Abort(oobs)
             ELSE /\ posAll' = [c \in Idx |-> IF c \in range
                                              THEN MoveAndClamp(posAll[c], currMov[c])
                                              ELSE posAll[c]]
                  /\ pc' = "loop"
                  /\ fault' = fault \cup oobs
                  /\ UNCHANGED << cfgVars, metricVars, parVars, n, pathTraveled, numberDivisions, typesAll,
                                  histVars, phase, i, currMov, Conc >>

\* the metrics taken when phase 2 has ended
FinalMetrics ==
    /\ phase = 2 /\ pc = "metrics"
    /\ \E out \in Outcomes(MetricsOobs) :
         IF out = "abort" THEN Abort(MetricsOobs)
         ELSE /\ energy' = GetEnergy(posAll, typesAll, n, spatialRange, targetN)
              /\ currCriterion' = GetCriterion(posAll, typesAll, n, spatialRange, targetN)
              /\ pc' = "done"
              /\ fault' = fault \cup MetricsOobs
              /\ UNCHANGED << cfgVars, parVars, popVars, histVars, phase, i, currMov, Conc >>

Next ==
    \/ Phase1Test
    \/ ProduceSubstances
    \/ RunDiffusionStep
    \/ RunDecayStep
    \/ CellMovementAndDuplication
    \/ Phase1Clamp
    \/ InitialMetrics
    \/ Phase2Test
    \/ RunDiffusionClusterStep
    \/ Phase2MoveClamp
    \/ FinalMetrics

Spec == Init /\ [][Next]_vars

\* The end-to-end run of the growth phase: 8 cells from one, 3 divisions per
\* cell, a random generator that is deterministic once seeded.
InitE2E ==
    /\ finalNumberCells = 8
    /\ divThreshold = 3
    /\ pathThreshold \in 1 .. MaxPathThr
    /\ \E u \in UnitDirs : rngDirs = {u}
    /\ D \in DriverD /\ mu \in DriverMu
    /\ InitRun

SpecE2E == InitE2E /\ [][Next]_vars

\* The program runs on: a step that can be taken is taken.
\* runs of the driver over the diffusion constants and decay rates, with a
\* population that is complete after one division
FieldD == { 1, DiffDen \div 2 }

FieldMu == 0 .. MuDen

InitField ==
    /\ finalNumberCells = 2
    /\ divThreshold = 1
    /\ pathThreshold \in 1 .. MaxPathThr
    /\ rngDirs = UnitDirs
    /\ D \in FieldD /\ mu \in FieldMu
    /\ InitRun

SpecField == InitField /\ [][Next]_vars

FairSpec == Spec /\ WF_vars(Next)


\* ------------------------------------------- produceSubstances in parallel
\* #pragma omp parallel for over c: the loop variable c is private to a thread;
\* i1, i2, i3 and C are declared before the loop and so are shared.  Every
\* statement of the body is a step; *C = *C + 0.1 is a load and a store.

\* the nonzero concentration a field handed to a kernel starts with
ConcHigh == ConcOne - ConcInc \div 2

\* positions of the cells handed to a kernel: one in each half of the x axis
ParPositions == { << PosHalf \div 2, PosHalf \div 2, PosHalf \div 2 >>,
                  << PosHalf + PosHalf \div 2, PosHalf \div 2, PosHalf \div 2 >> }

InitKernel ==
    /\ divThreshold = 0 /\ pathThreshold = 1 /\ T = 0 /\ speed = StepLen
    /\ rngDirs = UnitDirs
    /\ phase = 1 /\ i = 0
    /\ pathTraveled = [c \in Idx |-> 0]
    /\ numberDivisions = [c \in Idx |-> 0]
    /\ currMov = [c \in Idx |-> << 0, 0, 0 >>]
    /\ pre = Snapshot
    /\ born = << >> /\ parents = << >> /\ moved = {} /\ fault = {}
    /\ tpc = [t \in Threads |-> "idle"]
    /\ tloc = [t \in Threads |-> LocZero]
    /\ sh = ShZero
    /\ conc0 = Conc

\* the metrics are not part of a kernel run
NoMetrics ==
    /\ spatialRange = DriverRange /\ targetN = DriverTargetN
    /\ energy = EnergyZero /\ currCriterion = FALSE

InitProduce ==
    /\ n \in 1 .. MaxParCells
    /\ finalNumberCells = n
    /\ D = 0 /\ mu = 0
    /\ \E ps \in [0 .. (n - 1) -> ParPositions] :
         posAll = [c \in Idx |-> IF c < n THEN ps[c] ELSE << PosHalf, PosHalf, PosHalf >>]
    /\ \E ts \in [0 .. (n - 1) -> {1, -1}] :
         typesAll = [c \in Idx |-> IF c < n THEN ts[c] ELSE 0]
    /\ \E v \in {0, ConcHigh} : Conc = [k \in Subs \X Voxels |-> v]
    /\ todo = 0 .. (n - 1)
    /\ pc = "par"
    /\ InitKernel /\ NoMetrics

KernelFrame == UNCHANGED << cfgVars, metricVars, popVars, histVars, phase, i, currMov, fault, conc0 >>

\* a thread takes an iteration of the loop
TakeCell(t) ==
    /\ pc = "par" /\ tpc[t] = "idle"
    /\ \E c \in todo :
         /\ todo' = todo \ {c}
         /\ tloc' = [tloc EXCEPT ![t].c = c]
    /\ tpc' = [tpc EXCEPT ![t] = "i1"]
    /\ UNCHANGED << Conc, sh, pc >> /\ KernelFrame

\* i1 = std::min((int)floor(posAll[c][0]/sideLength), L);  likewise i2, i3
SetIndex(t) ==
    /\ pc = "par" /\ tpc[t] \in {"i1", "i2", "i3"}
    /\ LET p == posAll[tloc[t].c]
       IN  sh' = IF tpc[t] = "i1" THEN [sh EXCEPT !.i1 = VoxelIndex(p[1])]
                 ELSE IF tpc[t] = "i2" THEN [sh EXCEPT !.i2 = VoxelIndex(p[2])]
                 ELSE [sh EXCEPT !.i3 = VoxelIndex(p[3])]
    /\ tpc' = [tpc EXCEPT ![t] = IF @ = "i1" THEN "i2" ELSE IF @ = "i2" THEN "i3" ELSE "addr"]
    /\ UNCHANGED << Conc, todo, tloc, pc >> /\ KernelFrame

\* C = &Conc[(!(typesAll[c]==1))][i1][i2][i3];
SetPointer(t) ==
    /\ pc = "par" /\ tpc[t] = "addr"
    /\ sh' = [sh EXCEPT !.C = << SubstanceOf(typesAll[tloc[t].c]), << sh.i1, sh.i2, sh.i3 >> >>]
    /\ tpc' = [tpc EXCEPT ![t] = "load"]
    /\ UNCHANGED << Conc, todo, tloc, pc >> /\ KernelFrame

\* *C + 0.1
LoadAndAdd(t) ==
    /\ pc = "par" /\ tpc[t] = "load"
    /\ tloc' = [tloc EXCEPT ![t].reg = Conc[sh.C] + ConcInc]
    /\ tpc' = [tpc EXCEPT ![t] = "store"]
    /\ UNCHANGED << Conc, todo, sh, pc >> /\ KernelFrame

\* *C = ...
StoreSum(t) ==
    /\ pc = "par" /\ tpc[t] = "store"
    /\ Conc' = [Conc EXCEPT ![sh.C] = tloc[t].reg]
    /\ tpc' = [tpc EXCEPT ![t] = "test"]
    /\ UNCHANGED << todo, tloc, sh, pc >> /\ KernelFrame

\* if(*C > 1) *C=1;
TestAndClamp(t) ==
    /\ pc = "par" /\ tpc[t] \in {"test", "clamp"}
    /\ IF tpc[t] = "test"
       THEN /\ tpc' = [tpc EXCEPT ![t] = IF Conc[sh.C] > ConcOne THEN "clamp" ELSE "idle"]
            /\ UNCHANGED Conc
       ELSE /\ Conc' = [Conc EXCEPT ![sh.C] = ConcOne]
            /\ tpc' = [tpc EXCEPT ![t] = "idle"]
    /\ UNCHANGED << todo, tloc, sh, pc >> /\ KernelFrame

\* the barrier that ends the parallel loop
JoinThreads ==
    /\ pc \in {"par", "pardecay", "pardiffuse"} /\ todo = {} /\ \A t \in Threads : tpc[t] = "idle"
    /\ pc' = "joined"
    /\ UNCHANGED << Conc, todo, tpc, tloc, sh >> /\ KernelFrame

NextProduce ==
    \/ \E t \in Threads : TakeCell(t)
    \/ \E t \in Threads : SetIndex(t)
    \/ \E t \in Threads : SetPointer(t)
    \/ \E t \in Threads : LoadAndAdd(t)
    \/ \E t \in Threads : StoreSum(t)
    \/ \E t \in Threads : TestAndClamp(t)
    \/ JoinThreads

SpecProduce == InitProduce /\ [][NextProduce]_vars

\* ------------------------------------------------ runDecayStep in parallel
\* #pragma omp parallel for over i1: i1 is private to a thread; i2, i3 and the
\* row pointers Conc0_x, Conc1_x, Conc0_xy, Conc1_xy are declared before the
\* loop and so are shared.  A row pointer is modelled by the indices it was
\* built from.  The two statements of a pair, one per substance, are one step.
InitDecay ==
    /\ n = 1 /\ finalNumberCells = 1
    /\ D = 0 /\ mu = MuDen \div 2
    /\ posAll = [c \in Idx |-> << PosHalf, PosHalf, PosHalf >>]
    /\ typesAll = [c \in Idx |-> IF c = 0 THEN 1 ELSE 0]
    /\ Conc = [k \in Subs \X Voxels |-> ConcOne]
    /\ todo = Grid
    /\ pc = "pardecay"
    /\ InitKernel /\ NoMetrics

\* a thread takes an iteration i1 of the outer loop
TakeSlab(t) ==
    /\ pc = "pardecay" /\ tpc[t] = "idle"
    /\ \E i1 \in todo :
         /\ todo' = todo \ {i1}
         /\ tloc' = [tloc EXCEPT ![t].c = i1]
    /\ tpc' = [tpc EXCEPT ![t] = "x"]
    /\ UNCHANGED << Conc, sh, pc >> /\ KernelFrame

\* Conc0_x = Conc0[i1];  Conc1_x = Conc1[i1];
SetSlab(t) ==
    /\ pc = "pardecay" /\ tpc[t] = "x"
    /\ sh' = [sh EXCEPT !.x0 = tloc[t].c, !.x1 = tloc[t].c]
    /\ tpc' = [tpc EXCEPT ![t] = "i2init"]
    /\ UNCHANGED << Conc, todo, tloc, pc >> /\ KernelFrame

\* i2 = 0  and  i3 = 0
LoopInit(t) ==
    /\ pc = "pardecay" /\ tpc[t] \in {"i2init", "i3init"}
    /\ sh' = IF tpc[t] = "i2init" THEN [sh EXCEPT !.i2 = 0] ELSE [sh EXCEPT !.i3 = 0]
    /\ tpc' = [tpc EXCEPT ![t] = IF @ = "i2init" THEN "i2test" ELSE "i3test"]
    /\ UNCHANGED << Conc, todo, tloc, pc >> /\ KernelFrame

\* i2 < L  and  i3 < L
LoopTest(t) ==
    /\ pc = "pardecay" /\ tpc[t] \in {"i2test", "i3test"}
    /\ tpc' = [tpc EXCEPT ![t] =
                 IF @ = "i2test" THEN (IF sh.i2 < GridL THEN "xy" ELSE "idle")
                                 ELSE (IF sh.i3 < GridL THEN "w" ELSE "i2inc")]
    /\ UNCHANGED << Conc, todo, tloc, sh, pc >> /\ KernelFrame

\* Conc0_xy = Conc0_x[i2];  Conc1_xy = Conc1_x[i2];
SetRow(t) ==
    /\ pc = "pardecay" /\ tpc[t] = "xy"
    /\ sh' = [sh EXCEPT !.xy0 = << sh.x0, sh.i2 >>, !.xy1 = << sh.x1, sh.i2 >>]
    /\ tpc' = [tpc EXCEPT ![t] = "i3init"]
    /\ UNCHANGED << Conc, todo, tloc, pc >> /\ KernelFrame

\* the voxels the two row pointers and i3 address
ScaleTargets ==
    { << 0, << sh.xy0[1], sh.xy0[2], sh.i3 >> >>, << 1, << sh.xy1[1], sh.xy1[2], sh.i3 >> >> }

\* Conc0_xy[i3]= Conc0_xy[i3] * mu;  Conc1_xy[i3]= Conc1_xy[i3] * mu;
ScaleVoxel(t) ==
    /\ pc = "pardecay" /\ tpc[t] = "w"
    /\ LET oobs == IF \A k \in ScaleTargets : InGrid(k[2]) THEN {} ELSE {"voxel"}
       IN  \E out \in Outcomes(oobs) :
             IF out = "abort"
             THEN /\ pc' = "aborted"
                  /\ fault' = fault \cup oobs
                  /\ UNCHANGED << Conc, tpc >>
             ELSE /\ Conc' = [ k \in Subs \X Voxels |->
                                 IF k \in ScaleTargets THEN DecayValue(Conc[k], mu)
                                                       ELSE Conc[k] ]
                  /\ tpc' = [tpc EXCEPT ![t] = "i3inc"]
                  /\ UNCHANGED << pc, fault >>
    /\ UNCHANGED << cfgVars, metricVars, popVars, histVars, phase, i, currMov, conc0, todo, tloc, sh >>

\* i3++  and  i2++
LoopInc(t) ==
    /\ pc = "pardecay" /\ tpc[t] \in {"i3inc", "i2inc"}
    /\ sh' = IF tpc[t] = "i3inc" THEN [sh EXCEPT !.i3 = @ + 1] ELSE [sh EXCEPT !.i2 = @ + 1]
    /\ tpc' = [tpc EXCEPT ![t] = IF @ = "i3inc" THEN "i3test" ELSE "i2test"]
    /\ UNCHANGED << Conc, todo, tloc, pc >> /\ KernelFrame

NextDecay ==
    \/ \E t \in Threads : TakeSlab(t)
    \/ \E t \in Threads : SetSlab(t)
    \/ \E t \in Threads : LoopInit(t)
    \/ \E t \in Threads : LoopTest(t)
    \/ \E t \in Threads : SetRow(t)
    \/ \E t \in Threads : ScaleVoxel(t)
    \/ \E t \in Threads : LoopInc(t)
    \/ JoinThreads

SpecDecay == InitDecay /\ [][NextDecay]_vars

\* -------------------------------------------- runDiffusionStep in parallel
\* The update loop: #pragma omp parallel for collapse(3) makes i1, i2, i3
\* private to a thread; xUp .. zDown and the pointers C0, C1, tC0, tC1 are
\* declared before the loop and so are shared.  The copy loop before it is
\* taken in a schedule that equals its sequential execution (tempConc is the
\* field at entry, conc0).  The six index assignments are one step, the four
\* pointer assignments are one step, the six guarded updates are one step.

InitDiffuse ==
    /\ n = 1 /\ finalNumberCells = 1
    /\ D = 1 /\ mu = 0
    /\ posAll = [c \in Idx |-> << PosHalf, PosHalf, PosHalf >>]
    /\ typesAll = [c \in Idx |-> IF c = 0 THEN 1 ELSE 0]
    /\ \E hot \in { {<< 0, 0, 0 >>}, {<< 0, 0, 0 >>, << 1, 1, 1 >>} } :
         Conc = [k \in Subs \X Voxels |-> IF k[1] = 0 /\ k[2] \in hot THEN ConcOne ELSE 0]
    /\ todo = Voxels
    /\ pc = "pardiffuse"
    /\ InitKernel /\ NoMetrics

\* the position of (i1, i2, i3) in the collapsed iteration space
LinearIndex(v) == (v[1] * GridL + v[2]) * GridL + v[3]

\* schedule(static), the default: thread t is given the t-th of NThreads
\* contiguous chunks of the iteration space
ChunkOf(t) ==
    { v \in Voxels :
        /\ LinearIndex(v) * NThreads >= (t - 1) * Cardinality(Voxels)
        /\ LinearIndex(v) * NThreads < t * Cardinality(Voxels) }

\* a thread takes the next iteration (i1, i2, i3) of its chunk
TakeVoxel(t) ==
    /\ pc = "pardiffuse" /\ tpc[t] = "idle"
    /\ \E v \in todo \cap ChunkOf(t) :
         /\ \A w \in todo \cap ChunkOf(t) : LinearIndex(v) <= LinearIndex(w)
         /\ todo' = todo \ {v}
         /\ tloc' = [tloc EXCEPT ![t].v = v]
    /\ tpc' = [tpc EXCEPT ![t] = "nbr"]
    /\ UNCHANGED << Conc, sh, pc >> /\ KernelFrame

\* xUp = (i1+1); xDown = (i1-1); ... zDown = (i3-1);
SetNeighbours(t) ==
    /\ pc = "pardiffuse" /\ tpc[t] = "nbr"
    /\ sh' = [sh EXCEPT !.nbr = tloc[t].v]
    /\ tpc' = [tpc EXCEPT ![t] = "ptr"]
    /\ UNCHANGED << Conc, todo, tloc, pc >> /\ KernelFrame

\* C0 = &Conc[0][i1][i2][i3]; C1 = ...; tC0 = &tempConc[0][i1][i2][i3]; tC1 = ...
SetTargets(t) ==
    /\ pc = "pardiffuse" /\ tpc[t] = "ptr"
    /\ sh' = [sh EXCEPT !.C = << 0, tloc[t].v >>]
    /\ tpc' = [tpc EXCEPT ![t] = "upd"]
    /\ UNCHANGED << Conc, todo, tloc, pc >> /\ KernelFrame

\* The six voxels a thread with private indices v reads while the shared
\* xUp .. zDown hold the neighbours of voxel w, in the order of the updates:
\* tempConc[s][xUp][i2][i3], tempConc[s][xDown][i2][i3], ...
SharedReads(v, w) ==
    << << w[1] + 1, v[2], v[3] >>, << w[1] - 1, v[2], v[3] >>,
       << v[1], w[2] + 1, v[3] >>, << v[1], w[2] - 1, v[3] >>,
       << v[1], v[2], w[3] + 1 >>, << v[1], v[2], w[3] - 1 >> >>

\* the updates j .. 6 of one substance; if(xUp<L), if(xDown>=0), ... skip the
\* reads that leave the grid
RECURSIVE SumShared(_, _, _, _, _, _)
SumShared(temp, s, self, reads, j, d) ==
    IF j > Len(reads) THEN 0
    ELSE (IF InGrid(reads[j])
          THEN DiffTerm(temp[<< s, reads[j] >>], temp[<< s, self >>], d) ELSE 0)
           + SumShared(temp, s, self, reads, j + 1, d)

\* *C0 += (tempConc[0][xUp][i2][i3] - *tC0) * D;  *C1 += ...  (six guarded pairs)
UpdateVoxel(t) ==
    /\ pc = "pardiffuse" /\ tpc[t] = "upd"
    /\ LET u   == sh.C[2]
           reads == SharedReads(tloc[t].v, sh.nbr)
       IN  Conc' = [ k \in Subs \X Voxels |->
                       IF k[2] = u THEN Conc[k] + SumShared(conc0, k[1], u, reads, 1, D)
                                   ELSE Conc[k] ]
    /\ tpc' = [tpc EXCEPT ![t] = "idle"]
    /\ UNCHANGED << todo, tloc, sh, pc >> /\ KernelFrame

NextDiffuse ==
    \/ \E t \in Threads : TakeVoxel(t)
    \/ \E t \in Threads : SetNeighbours(t)
    \/ \E t \in Threads : SetTargets(t)
    \/ \E t \in Threads : UpdateVoxel(t)
    \/ JoinThreads

SpecDiffuse == InitDiffuse /\ [][NextDiffuse]_vars

\* -------------------------------------- runDiffusionClusterStep in parallel
\* '#pragma omp parallel for' over c: c is private to a thread; i1, i2, i3,
\* xUp .. zDown, gradSub1, gradSub2, normGrad1 and normGrad2 are declared
\* before the loop and shared by all threads.  The field is only read.
ClusterConc ==
    [k \in Subs \X Voxels |->
       IF k = << 0, << 1, 1, 0 >> >> \/ k = << 1, << 1, 0, 1 >> >> THEN ConcOne ELSE 0]

InitCluster ==
    /\ n \in 1 .. MaxParCells
    /\ finalNumberCells = n
    /\ D = 0 /\ mu = 0
    /\ \E ps \in [0 .. (n - 1) -> ParPositions] :
         posAll = [c \in Idx |-> IF c < n THEN ps[c] ELSE << PosHalf, PosHalf, PosHalf >>]
    /\ \E ts \in [0 .. (n - 1) -> {1, -1}] :
         typesAll = [c \in Idx |-> IF c < n THEN ts[c] ELSE 0]
    /\ Conc \in { ClusterConc, [k \in Subs \X Voxels |-> ConcOne] }
    /\ todo = 0 .. (n - 1)
    /\ pc = "parcluster"
    /\ InitKernel /\ NoMetrics

ClusterFrame == UNCHANGED << cfgVars, metricVars, popVars, histVars, phase, i, conc0, Conc, pc >>

\* a thread takes the next cell
TakeClusterCell(t) ==
    /\ pc = "parcluster" /\ tpc[t] = "idle"
    /\ \E c \in todo :
         /\ todo' = todo \ {c}
         /\ tloc' = [tloc EXCEPT ![t].c = c]
    /\ tpc' = [tpc EXCEPT ![t] = "idx"]
    /\ UNCHANGED << sh, currMov, fault >> /\ ClusterFrame

\* i1 = min((int)floor(posAll[c][0]/sideLength), L);  likewise i2, i3
SetIndices(t) ==
    /\ pc = "parcluster" /\ tpc[t] = "idx"
    /\ LET v == CellVoxel(posAll[tloc[t].c])
       IN  sh' = [sh EXCEPT !.i1 = v[1], !.i2 = v[2], !.i3 = v[3]]
    /\ tpc' = [tpc EXCEPT ![t] = "nbr"]
    /\ UNCHANGED << todo, tloc, currMov, fault >> /\ ClusterFrame

\* xUp = min((i1+1), L); xDown = max((i1-1), 0); ... from the shared i1, i2, i3
SetUpDown(t) ==
    /\ pc = "parcluster" /\ tpc[t] = "nbr"
    /\ sh' = [sh EXCEPT !.nbr = << sh.i1, sh.i2, sh.i3 >>]
    /\ tpc' = [tpc EXCEPT ![t] = "grad"]
    /\ UNCHANGED << todo, tloc, currMov, fault >> /\ ClusterFrame

\* (Conc[s][xUp][i2][i3]-Conc[s][xDown][i2][i3])/(sideLength*(xUp-xDown)) with
\* the shared indices iv and the shared xUp .. zDown of voxel nv
SharedGradComp(conc, s, iv, nv, a) ==
    LET up   == [iv EXCEPT ![a] = UpIndex(nv[a])]
        down == [iv EXCEPT ![a] = DownIndex(nv[a])]
        span == up[a] - down[a]
    IN  IF span = 0 THEN [nan |-> TRUE, val |-> 0]
        ELSE [nan |-> FALSE,
              val |-> ((ReadConc(conc, s, up) - ReadConc(conc, s, down)) * 2) \div span]

\* gradSub1[0..2] = ...; gradSub2[0..2] = ...;
SetGradients(t) ==
    /\ pc = "parcluster" /\ tpc[t] = "grad"
    /\ LET iv == << sh.i1, sh.i2, sh.i3 >>
       IN  sh' = [sh EXCEPT !.g1 = [a \in Axis |-> SharedGradComp(Conc, 0, iv, sh.nbr, a)],
                            !.g2 = [a \in Axis |-> SharedGradComp(Conc, 1, iv, sh.nbr, a)]]
    /\ tpc' = [tpc EXCEPT ![t] = "norm"]
    /\ UNCHANGED << todo, tloc, currMov, fault >> /\ ClusterFrame

\* normGrad1 = getNorm(gradSub1); normGrad2 = getNorm(gradSub2);
SetNorms(t) ==
    /\ pc = "parcluster" /\ tpc[t] = "norm"
    /\ sh' = [sh EXCEPT !.n1 = sh.g1, !.n2 = sh.g2]
    /\ tpc' = [tpc EXCEPT ![t] = "test"]
    /\ UNCHANGED << todo, tloc, currMov, fault >> /\ ClusterFrame

\* if((normGrad1>0) && (normGrad2>0))
TestNorms(t) ==
    /\ pc = "parcluster" /\ tpc[t] = "test"
    /\ tpc' = [tpc EXCEPT ![t] = IF NormPositive(sh.n1) /\ NormPositive(sh.n2)
                                 THEN "scale" ELSE "zero"]
    /\ UNCHANGED << todo, tloc, sh, currMov, fault >> /\ ClusterFrame

\* 100 * gradSub[a] / normGrad, normGrad being the norm of the gradient ng
SharedUnitComp(g, ng, a) ==
    RoundDiv(g[a].val * 100 * GradScale(ng), ISqrt(NormSq(ng) * GradScale(ng) * GradScale(ng)))

\* a movement vector with components that are not finite numbers (x/0)
MoveNotFinite == << 2 * PosAbsorb, 2 * PosAbsorb, 2 * PosAbsorb >>

\* movVec[c][k] = typesAll[c]*(gradSub1[k]/normGrad1-gradSub2[k]/normGrad2)*speed
WriteMovement(t) ==
    /\ pc = "parcluster" /\ tpc[t] = "scale"
    /\ LET c    == tloc[t].c
           zero == ~NormPositive(sh.n1) \/ ~NormPositive(sh.n2)
           mv   == [a \in Axis |->
                      RoundDiv(typesAll[c] * (SharedUnitComp(sh.g1, sh.n1, a)
                                                - SharedUnitComp(sh.g2, sh.n2, a)) * speed, 100)]
       IN  /\ currMov' = [currMov EXCEPT ![c] = IF zero THEN MoveNotFinite ELSE mv]
           /\ fault' = IF zero THEN fault \cup {"divzero"} ELSE fault
    /\ tpc' = [tpc EXCEPT ![t] = "idle"]
    /\ UNCHANGED << todo, tloc, sh >> /\ ClusterFrame

\* movVec[c][0]=0; movVec[c][1]=0; movVec[c][2]=0;
WriteZero(t) ==
    /\ pc = "parcluster" /\ tpc[t] = "zero"
    /\ currMov' = [currMov EXCEPT ![tloc[t].c] = << 0, 0, 0 >>]
    /\ tpc' = [tpc EXCEPT ![t] = "idle"]
    /\ UNCHANGED << todo, tloc, sh, fault >> /\ ClusterFrame

\* the implicit barrier that ends the parallel loop
JoinCluster ==
    /\ pc = "parcluster" /\ todo = {} /\ \A t \in Threads : tpc[t] = "idle"
    /\ pc' = "joined"
    /\ UNCHANGED << Conc, todo, tpc, tloc, sh >> /\ KernelFrame

NextCluster ==
    \/ \E t \in Threads : TakeClusterCell(t)
    \/ \E t \in Threads : SetIndices(t)
    \/ \E t \in Threads : SetUpDown(t)
    \/ \E t \in Threads : SetGradients(t)
    \/ \E t \in Threads : SetNorms(t)
    \/ \E t \in Threads : TestNorms(t)
    \/ \E t \in Threads : WriteMovement(t)
    \/ \E t \in Threads : WriteZero(t)
    \/ JoinCluster

SpecCluster == InitCluster /\ [][NextCluster]_vars

\* ------------------------------------------- runDiffusionStep on its own
\* One call of runDiffusionStep, run by one thread, on fields of substance 0
\* that are 0 or 1.0 in each voxel of the corner block {0,1}^3 of the grid.
CornerBlock == { v \in Voxels : \A a \in Axis : v[a] <= 1 }

InitConserve ==
    /\ n = 1 /\ finalNumberCells = 1
    /\ D \in FieldD /\ mu = 0
    /\ posAll = [c \in Idx |-> << PosHalf, PosHalf, PosHalf >>]
    /\ typesAll = [c \in Idx |-> IF c = 0 THEN 1 ELSE 0]
    /\ \E hot \in SUBSET CornerBlock :
         Conc = [k \in Subs \X Voxels |-> IF k[1] = 0 /\ k[2] \in hot THEN ConcOne ELSE 0]
    /\ todo = {}
    /\ pc = "diffuse"
    /\ InitKernel /\ NoMetrics

NextConserve == RunDiffusionStep

SpecConserve == InitConserve /\ [][NextConserve]_vars

\* ----------------------------------------------- getEnergy and getCriterion
\* The two metrics applied to populations of a large cluster at the centre and
\* a smaller group of cells at one site: at the centre, near it (closer than
\* spatialRange), far from it, or on the face of the cube.
MainSizes == { 101, 201 }
SideSizes == { 0, 1, 30 }
Centre    == << PosHalf, PosHalf, PosHalf >>
SideSites == { Centre,
               << PosHalf + 1, PosHalf, PosHalf >>,
               << PosHalf + 3 * StepLen, PosHalf, PosHalf >>,
               << PosOne, PosHalf, PosHalf >> }
TargetNs  == { 50, 100, 1000 }

InitMetrics ==
    /\ \E main \in MainSizes, side \in SideSizes :
         /\ n = main + side
         /\ \E site \in (IF side = 0 THEN { Centre } ELSE SideSites) :
              posAll = [c \in 0 .. (n - 1) |-> IF c < main THEN Centre ELSE site]
         /\ \E ty \in (IF side = 0 THEN { 1 } ELSE { 1, -1 }) :
              typesAll = [c \in 0 .. (n - 1) |-> IF c < main THEN 1 ELSE ty]
    /\ finalNumberCells = n
    /\ spatialRange = DriverRange
    /\ targetN \in TargetNs
    /\ energy = EnergyZero /\ currCriterion = FALSE
    /\ D = 0 /\ mu = 0
    /\ Conc = [k \in Subs \X Voxels |-> 0]
    /\ todo = {}
    /\ pc = "energy"
    /\ InitKernel

\* energy = getEnergy(posAll, typesAll, n, spatialRange, targetN);
CallGetEnergy ==
    /\ pc = "energy"
    /\ energy' = GetEnergy(posAll, typesAll, n, spatialRange, targetN)
    /\ pc' = "criterion"
    /\ UNCHANGED << cfgVars, parVars, popVars, histVars, phase, i, currMov, Conc, fault,
                    currCriterion >>

\* currCriterion = getCriterion(posAll, typesAll, n, spatialRange, targetN);
CallGetCriterion ==
    /\ pc = "criterion"
    /\ currCriterion' = GetCriterion(posAll, typesAll, n, spatialRange, targetN)
    /\ pc' = "measured"
    /\ UNCHANGED << cfgVars, parVars, popVars, histVars, phase, i, currMov, Conc, fault,
                    energy >>

NextMetrics ==
    \/ CallGetEnergy
    \/ CallGetCriterion

SpecMetrics == InitMetrics /\ [][NextMetrics]_vars

\* ---------------------------------------------------------------- claims
Active == 0 .. (n - 1)

Phase1Ended == phase = 1 /\ pc = "metrics"

\* a growth pass has just returned
AfterGrowth == pc = "clamp"

\* a boundary pass has just ended an iteration
AfterClampPass ==
    \/ phase = 1 /\ pc = "loop" /\ moved # {}
    \/ phase = 2 /\ pc = "loop" /\ i < T

InCube(p) == \A a \in Axis : p[a] >= 0 /\ p[a] <= PosOne

RECURSIVE SumDivisions(_)
SumDivisions(cnt) == IF cnt <= 0 THEN 0 ELSE numberDivisions[cnt - 1] + SumDivisions(cnt - 1)

\* C2: the active count never exceeds finalNumberCells, no daughter is written
\* at an index >= finalNumberCells, and phase 1 ends with n = finalNumberCells.
C2_CountWithinCapacity ==
    /\ n <= finalNumberCells
    /\ \A k \in 1 .. Len(born) : born[k] < finalNumberCells
    /\ Phase1Ended => n = finalNumberCells

\* C3: after the boundary pass that ends a driver iteration every active cell,
\* the seed cell at index 0 included, has its three coordinates in [0,1].
C3_AllCellsInsideAfterClamp ==
    AfterClampPass => \A c \in Active : InCube(posAll[c])

\* C4 as claimed: whenever division can trigger (divThreshold >= 1, pathThreshold
\* > 0) the active count reaches finalNumberCells after finitely many iterations
\* (a run that a fault ends is not counted against the claim).
C4_TerminatesWhenDivisionPossible ==
    (divThreshold >= 1) => <>(n >= finalNumberCells \/ pc = "aborted")

\* C4 as amended: with finalNumberCells > 2^divThreshold the active count never
\* reaches finalNumberCells, whatever divThreshold >= 1 and pathThreshold > 0 are.
C4_NoTerminationBeyondLineage ==
    (finalNumberCells > Pow2(divThreshold)) => n < finalNumberCells

\* the stalled population: division is configured, every cell has used its
\* divThreshold divisions, and the count is still below finalNumberCells
C4_Witness ==
    /\ divThreshold >= 1 /\ phase = 1 /\ pc = "loop"
    /\ n = Pow2(divThreshold) /\ n < finalNumberCells
    /\ \A c \in Active : numberDivisions[c] = divThreshold
    /\ \A c \in Active : pathTraveled[c] > pathThreshold

\* C5: from the seed cell with finalNumberCells = 8 and divThreshold = 3 phase 1
\* terminates (the run is not cut short inside phase 1), and it ends with
\* exactly 8 active cells.
C5_GrowthEndsWithEight ==
    /\ ~(phase = 1 /\ pc = "aborted")
    /\ Phase1Ended => n = 8

\* C6 as claimed: when phase 1 of that run ends, the divisionCount of the active
\* cells sums to 7.
C6_DivisionSumIsSeven == Phase1Ended => SumDivisions(n) = 7

\* C6 as amended: when phase 1 of that run ends there are 8 cells, each with
\* divisionCount 3, so the sum is 24; 7 is the number of divisions (n - 1).
C6_DivisionSumIsTwentyFour ==
    Phase1Ended => /\ n - 1 = 7
                   /\ \A c \in Active : numberDivisions[c] = 3
                   /\ SumDivisions(n) = 24

C6_Witness == Phase1Ended /\ n = 8 /\ finalNumberCells = 8 /\ divThreshold = 3

\* the cells of the pre-pass population that divide in the pass
DividersOf(p) ==
    { c \in 0 .. (p.n - 1) :
        p.nd[c] < divThreshold /\ Min(p.path[c] + StepLen, PathAbsorb) > pathThreshold }

\* C7: a growth pass called with n cells returns n + k, k the number of pre-pass
\* cells under divThreshold whose path (after +0.1) exceeds pathThreshold; the
\* daughters take the indices n .. n+k-1 in order; only the pre-pass cells are
\* moved or divided; the cells keep their indices.
C7_GrowthStepExact ==
    AfterGrowth =>
      LET k == Cardinality(DividersOf(pre))
      IN  /\ n = pre.n + k
          /\ Len(born) = k
          /\ \A j \in 1 .. Len(born) : born[j] = pre.n + j - 1
          /\ moved = 0 .. (pre.n - 1)
          /\ \A j \in 1 .. Len(parents) : parents[j] \in DividersOf(pre)
          /\ \A c \in 0 .. (pre.n - 1) :
               /\ typesAll[c] = pre.ty[c]
               /\ numberDivisions[c] = pre.nd[c] + (IF c \in DividersOf(pre) THEN 1 ELSE 0)

\* a pass in which two cells divided
C7_Witness == AfterGrowth /\ Len(born) >= 2 /\ pre.n >= 2

\* C8: a daughter's type is the negation of its parent's type, the division
\* leaves the parent's type unchanged, every active cell's type is +1 or -1, and
\* the type of an active cell never changes.
C8_TypesInvertedAndStable ==
    /\ [](\A c \in Active : typesAll[c] \in {1, -1})
    /\ [](AfterGrowth =>
            \A j \in 1 .. Len(born) :
                /\ typesAll[born[j]] = -pre.ty[parents[j]]
                /\ typesAll[parents[j]] = pre.ty[parents[j]])
    /\ [][\A c \in Active : typesAll'[c] = typesAll[c]]_vars

\* a cell of type -1 has divided: its daughter is of type +1
C8_Witness ==
    AfterGrowth /\ \E j \in 1 .. Len(born) : pre.ty[parents[j]] = -1 /\ typesAll[born[j]] = 1

\* the cells that deposit substance s into voxel v
Depositors(s, v) ==
    { c \in Active : SubstanceOf(typesAll[c]) = s /\ CellVoxel(posAll[c]) = v }

\* C1: when the loop of produceSubstances is run by several threads, every
\* voxel ends with min(1, old + 0.1*k), k the number of active cells of the
\* matching type in that voxel; no other voxel changes.
C1_NoLostDeposit ==
    pc = "joined" =>
      \A k \in Subs \X Voxels :
        Conc[k] = Min(ConcOne, conc0[k] + ConcInc * Cardinality(Depositors(k[1], k[2])))

\* C9: after a produce step every voxel value of both fields lies in [0,1].
C9_FieldInUnitRangeAfterProduce ==
    pc \in {"diffuse", "joined"} => \A k \in Subs \X Voxels : Conc[k] >= 0 /\ Conc[k] <= ConcOne

\* C10: one call of runDecayStep multiplies every voxel of both fields by
\* (1 - mu) exactly once.
C10_EveryVoxelScaledOnce ==
    pc = "joined" => \A k \in Subs \X Voxels : Conc[k] = DecayValue(conc0[k], mu)

\* C11: after one diffuse(D) step each voxel holds its step-begin value plus
\* (D/6) times the sum over its in-grid neighbours of (neighbour's step-begin
\* value - own step-begin value).
C11_JacobiUpdate ==
    pc = "joined" =>
      \A k \in Subs \X Voxels :
        Conc[k] = conc0[k] + SumTerms(conc0, k[1], k[2], Neighbours(k[2]), D)


\* the subvolume cells of the population the metrics are applied to
Selected == SubVolCells(posAll, n, targetN)

\* the close pairs of subvolume cells whose types differ
OppositeClose ==
    { pr \in ClosePairs(posAll, Selected, spatialRange) :
        typesAll[pr[1]] # typesAll[pr[2]] }

\* the sum, over the subvolume cells, of the number of other subvolume cells of
\* the same type closer than spatialRange
SameTypeNeighbours ==
    Cardinality({ pr \in Selected \X Selected :
                    /\ pr[1] # pr[2]
                    /\ typesAll[pr[1]] = typesAll[pr[2]]
                    /\ IsClose(posAll[pr[1]], posAll[pr[2]], spatialRange) })

PopulationOutOfRange ==
    \/ 4 * Cardinality(Selected) < targetN
    \/ Cardinality(Selected) > 4 * targetN

\* C12: criterion returns true if and only if none of the four failure
\* conditions holds for the m subvolume cells: (a) m/targetN < 0.25, (b)
\* m/targetN > 4, (c) different-type close pairs / (close pairs + 1) > 0.1,
\* (d) the average over the m cells of the number of same-type cells closer
\* than spatialRange is below 100.
C12_CriterionIffNoFailure ==
    pc = "measured" =>
      ( currCriterion <=>
          ~ \/ PopulationOutOfRange
            \/ 10 * Cardinality(OppositeClose)
                 > Cardinality(ClosePairs(posAll, Selected, spatialRange)) + 1
            \/ SameTypeNeighbours < 100 * Cardinality(Selected) )

C15_NoExtraEnergyWithoutOppositePairs ==
    pc \in { "criterion", "measured" } /\ OppositeClose = {} =>
      LET e == EnergyTerms(posAll, typesAll, n, spatialRange, targetN)
      IN  /\ e.extra = 0
          /\ energy = [ num |-> 0 - e.intra, den |-> 1 + 100 * e.nrSmallDist ]
          /\ energy.num <= 0 /\ energy.den > 0

\* two clusters of opposite type further apart than spatialRange, both in the
\* subvolume
C15_Witness ==
    /\ pc = "measured"
    /\ OppositeClose = {}
    /\ \E a \in Selected, b \in Selected : typesAll[a] # typesAll[b]
    /\ energy.num < 0


\* C16: a cell divides in a growth pass only if its divisionCount is below
\* divThreshold and its pathTraveled (with the pass's increment) exceeds
\* pathThreshold; the parent's pathTraveled becomes that value minus
\* pathThreshold, its divisionCount grows by exactly 1, the daughter's
\* divisionCount is the parent's incremented value; a cell that does not divide
\* keeps its divisionCount.
C16_DivisionBookkeeping ==
    AfterGrowth =>
      /\ Len(parents) = Len(born)
      /\ \A j \in 1 .. Len(parents) :
           LET c == parents[j]
               d == born[j]
           IN  /\ pre.nd[c] < divThreshold
               /\ AddPath(pre.path[c]) > pathThreshold
               /\ pathTraveled[c] = AddPath(pre.path[c]) - pathThreshold
               /\ numberDivisions[c] = pre.nd[c] + 1
               /\ numberDivisions[d] = pre.nd[c] + 1
      /\ \A c \in 0 .. (pre.n - 1) :
           (\A j \in 1 .. Len(parents) : parents[j] # c)
             => numberDivisions[c] = pre.nd[c]

\* a pass in which a cell that had divided before divides again while another
\* cell does not divide
C16_Witness ==
    /\ AfterGrowth
    /\ \E j \in 1 .. Len(parents) :
         pre.nd[parents[j]] >= 1 /\ pathTraveled[parents[j]] > 0
    /\ \E c \in 0 .. (pre.n - 1) : \A j \in 1 .. Len(parents) : parents[j] # c


\* the voxel of a cell and the neighbour indices derived from it are grid indices
IndicesValid(p) ==
    /\ InGrid(CellVoxel(p))
    /\ \A k \in Axis : UpIndex(CellVoxel(p)[k]) \in Grid /\ DownIndex(CellVoxel(p)[k]) \in Grid

\* C17: in every produce call and every clusterStep call of the run, the voxel
\* indices of every active cell, and the neighbour indices derived from them,
\* lie in [0, L-1] on each axis.
C17_VoxelIndicesValid ==
    pc \in { "produce", "cluster" } => \A c \in 0 .. (n - 1) : IndicesValid(posAll[c])


\* the order of the calls in one iteration of phase 2, and the end of the loop
Phase2Order ==
    \/ pc = "loop" /\ i # 0 /\ pc' = "produce" /\ i' = i - 1
    \/ pc = "loop" /\ i = 0 /\ pc' = "metrics"
    \/ pc = "produce" /\ pc' = "diffuse"
    \/ pc = "diffuse" /\ pc' = "decay"
    \/ pc = "decay" /\ pc' = "cluster"
    \/ pc = "cluster" /\ pc' = "move"
    \/ pc = "move" /\ pc' = "loop" /\ i' = i
    \/ pc = "metrics" /\ pc' = "done" /\ i = -1

\* C14: phase 2 runs exactly T iterations of produce, diffuse, decay,
\* clusterStep, move, clamp in that order; n and every cell's type are unchanged
\* throughout phase 2; the metrics are evaluated exactly twice, once after
\* phase 1 and before the first iteration and once after the last one.
C14_Phase2Schedule ==
    [][ /\ phase = 1 /\ phase' = 2 => pc = "metrics" /\ pc' = "loop" /\ i' = T
        /\ phase = 2 => /\ Phase2Order
                        /\ phase' = 2 /\ n' = n /\ typesAll' = typesAll ]_vars


\* C18: when the per-cell loop of clusterStep (like the voxel loops of diffuse
\* and decay) is distributed over several threads, every schedule leaves the
\* field and the movement vectors of the sequential execution.
C18_ScheduleIndependent ==
    pc = "joined" =>
      /\ Conc = conc0
      /\ \A c \in 0 .. (n - 1) :
           currMov[c] = MovementOf(conc0, posAll[c], typesAll[c], speed)


\* the cells whose gradient of substance 0 or of substance 1 has norm zero
ZeroGradientCells ==
    { c \in Active :
        \/ NormSq(Gradient(conc0, 0, CellVoxel(posAll[c]))) = 0
        \/ NormSq(Gradient(conc0, 1, CellVoxel(posAll[c]))) = 0 }

\* C20: for every active cell whose gradient of substance 0 or of substance 1
\* has norm zero, clusterStep writes the movement (0,0,0), divides by no zero
\* norm, and the move-and-clamp pass leaves a position inside the cube where
\* it was.
C20_ZeroGradientNoMovement ==
    pc = "joined" =>
      \A c \in ZeroGradientCells :
        /\ currMov[c] = << 0, 0, 0 >>
        /\ currMov[c] # MoveNotFinite
        /\ InCube(posAll[c]) => MoveAndClamp(posAll[c], currMov[c]) = posAll[c]


\* the sum of one substance over all voxels
RECURSIVE SumOver(_, _, _)
SumOver(conc, s, vs) ==
    IF vs = {} THEN 0
    ELSE LET v == CHOOSE x \in vs : TRUE
         IN  conc[<< s, v >>] + SumOver(conc, s, vs \ {v})

SubstanceSum(conc, s) == SumOver(conc, s, Voxels)

\* voxels on a face of the grid, which have fewer than six neighbours
BoundaryVoxels == { v \in Voxels : \E a \in Axis : v[a] = 0 \/ v[a] = GridL - 1 }

\* the field of substance s differs between a boundary voxel and a neighbour
NonUniformAtBoundary(conc, s) ==
    \E v \in BoundaryVoxels : \E w \in Neighbours(v) : conc[<< s, v >>] # conc[<< s, w >>]

\* C19 as stated: on a field that is not uniform at the boundary voxels the
\* sum of a substance over all voxels after a diffuse step differs from the sum
\* before it, because boundary voxels receive fewer neighbour contributions.
C19_BoundaryChangesSum ==
    pc = "decay" /\ NonUniformAtBoundary(conc0, 0) =>
      SubstanceSum(Conc, 0) # SubstanceSum(conc0, 0)

\* C19, amended: a diffuse step leaves the sum of each substance over all
\* voxels unchanged, whatever the field is at the boundary: what a voxel gains
\* from an in-grid neighbour, that neighbour loses.
C19_DiffusionConservesSum ==
    pc = "decay" => \A s \in Subs : SubstanceSum(Conc, s) = SubstanceSum(conc0, s)

\* a step that changes a field which is not uniform at the boundary
C19_Witness ==
    /\ pc = "decay"
    /\ NonUniformAtBoundary(conc0, 0)
    /\ \E v \in BoundaryVoxels : Conc[<< 0, v >>] # conc0[<< 0, v >>]
    /\ SubstanceSum(conc0, 0) > 0


\* the sum over the cells 0 .. cnt-1 of 2^(divThreshold - numberDivisions[c])
RECURSIVE LineageWeight(_)
LineageWeight(cnt) ==
    IF cnt <= 0 THEN 0
    ELSE Pow2(divThreshold - numberDivisions[cnt - 1]) + LineageWeight(cnt - 1)

\* C21: in every state of phase 1 each active cell has
\* 0 <= divisionCount <= divThreshold and the sum over the active cells of
\* 2^(divThreshold - divisionCount) is 2^divThreshold; hence n never exceeds
\* 2^divThreshold, and equals it only when every cell has divisionCount =
\* divThreshold.
C21_LineageInvariant ==
    phase = 1 =>
      /\ \A c \in 0 .. (n - 1) :
           numberDivisions[c] >= 0 /\ numberDivisions[c] <= divThreshold
      /\ LineageWeight(n) = Pow2(divThreshold)
      /\ n <= Pow2(divThreshold)
      /\ n = Pow2(divThreshold) =>
           \A c \in 0 .. (n - 1) : numberDivisions[c] = divThreshold

\* a population in which cells of different generations live side by side
C21_Witness ==
    /\ phase = 1 /\ n >= 3
    /\ \E a \in 0 .. (n - 1), b \in 0 .. (n - 1) :
         numberDivisions[a] < numberDivisions[b]
    /\ LineageWeight(n) = Pow2(divThreshold)


\* C22: every index with which the driver, the growth pass and the clamp passes
\* read or write the per-cell arrays is in [0, finalNumberCells), and each
\* clamp pass touches exactly the active indices [0, n).
C22_CellAccessesInsideAllocation ==
    /\ fault \cap { "cell", "daughter" } = {}
    /\ pc = "clamp" => /\ Phase1ClampRange(n) = 0 .. (n - 1)
                       /\ \A c \in Phase1ClampRange(n) : c < finalNumberCells
    /\ pc = "move" => /\ Phase2ClampRange(n) = 0 .. (n - 1)
                      /\ \A c \in Phase2ClampRange(n) : c < finalNumberCells

====
